---------------------------- MODULE Spec2Model ----------------------------
(***************************************************************************)
(* Model of services/stat_calculator.py (class StatCalculator).            *)
(*                                                                         *)
(* Python values are modelled as tagged records of one shape, so that any  *)
(* two of them can be compared:  kind \in {"int","float","str","bool",     *)
(* "none","dict","list"}, n the numeric payload, s the string payload and  *)
(* entries the key/value mapping of a dict.                                *)
(*                                                                         *)
(* The Korean string literals of the source are written in ASCII:          *)
(*   FailureReason  - the reason returned at line 146                      *)
(*   DefaultReason  - the default of result.get('reason', ...) at line 137 *)
(*   the five training labels of lines 165-169 and the five tier texts of  *)
(*   lines 185-193 (see the definitions below).                            *)
(***************************************************************************)
EXTENDS Integers, Sequences, FiniteSets, TLC

VARIABLES
    gameState,     \* the game_state object handed to the calls
    pc,            \* per caller: "ready" or "invoke" (inside chain.invoke)
    prompt,        \* per caller: the request in flight to the oracle
    response,      \* per caller: the response text of the current/last call
    invocations,   \* per caller: chain.invoke calls made by the current/last call
    warnings,      \* per caller: warnings printed by the current/last call
    invokeError,   \* per caller: the exception chain.invoke raised, "" if none
    outcome,       \* per caller: how the last call ended and with what
    held           \* per caller: the dict object the last call handed out

vars == <<gameState, pc, prompt, response, invocations, warnings, invokeError,
          outcome, held>>

---------------------------------------------------------------------------
(* Bounds of the model *)

NumCallers == 2          \* concurrent callers of the facade
MaxEntries == 2          \* entries in a stat_changes object of a response
IntimacyBelow == 25      \* get_intimacy_level inputs start at -IntimacyBelow
IntimacyAbove == 150     \* ... and end at IntimacyAbove

(* Ranges the system prompt documents for the oracle *)
MajorRange == 10         \* intimacy, mental: -10 .. +10
MinorRange == 5          \* stamina, power, speed: -5 .. +5

Callers == 1..NumCallers

---------------------------------------------------------------------------
(* Python values *)

EmptyMap == [k \in {} |-> 0]

PyInt(i)   == [kind |-> "int",   n |-> i, s |-> "", entries |-> EmptyMap]
PyFloat(i) == [kind |-> "float", n |-> i, s |-> "", entries |-> EmptyMap]
PyBool(b)  == [kind |-> "bool",  n |-> IF b THEN 1 ELSE 0, s |-> "", entries |-> EmptyMap]
PyStr(t)   == [kind |-> "str",   n |-> 0, s |-> t,  entries |-> EmptyMap]
PyNone     == [kind |-> "none",  n |-> 0, s |-> "", entries |-> EmptyMap]
PyList     == [kind |-> "list",  n |-> 0, s |-> "", entries |-> EmptyMap]
PyDict(m)  == [kind |-> "dict",  n |-> 0, s |-> "", entries |-> m]

(* Python's  v != 0 : numbers and bools compare by value (False == 0,
   0.0 == 0), every other value differs from 0. *)
PyNeZero(v) ==
    IF v.kind \in {"int", "float", "bool"} THEN v.n # 0 ELSE TRUE

---------------------------------------------------------------------------
(* Game state *)

StatNames == {"intimacy", "mental", "stamina", "power", "speed"}

GameStates ==
    { [current_month |-> 3,
       stats |-> [intimacy |-> 30, mental |-> 50, stamina |-> 60,
                  power |-> 40, speed |-> 45]],
      [current_month |-> 11,
       stats |-> [intimacy |-> 85, mental |-> 20, stamina |-> 0,
                  power |-> 100, speed |-> 45]] }

(* lines 53-59 *)
current_stats(game_state) ==
    [intimacy |-> game_state.stats.intimacy,
     mental   |-> game_state.stats.mental,
     stamina  |-> game_state.stats.stamina,
     power    |-> game_state.stats.power,
     speed    |-> game_state.stats.speed]


---------------------------------------------------------------------------
(* Oracle responses.  A response text is modelled by what json.loads makes
   of it: `valid` is FALSE for text that is not JSON; otherwise `top` is the
   type of the top-level JSON value and, for an object, `fields` are the keys
   it has, with their values in stat_changes and reason (PyNone when the key
   is absent).  The optional "analysis" key is never read by the code and is
   left out. *)

OtherKeys == {"luck"}
EntryKeys == StatNames \cup OtherKeys

(* values an entry of stat_changes may carry: in range, out of every
   documented range, zero as int and as float, and values that are no number *)
EntryValues ==
    { PyInt(-(MajorRange + 1)), PyInt(0), PyInt(MinorRange), PyInt(MajorRange + 1),
      PyFloat(0), PyBool(FALSE), PyStr("high"), PyNone }

EntryMaps ==
    UNION { [D -> EntryValues] :
              D \in { S \in SUBSET EntryKeys : Cardinality(S) <= MaxEntries } }

StatChangesValues == { PyDict(m) : m \in EntryMaps } \cup { PyList, PyNone }

ReasonValues == { PyStr("Positive encouragement"), PyStr(""), PyNone, PyInt(7) }

NotJson ==
    [valid |-> FALSE, top |-> "none", fields |-> {},
     stat_changes |-> PyNone, reason |-> PyNone]

JsonOther(t) ==
    [valid |-> TRUE, top |-> t, fields |-> {},
     stat_changes |-> PyNone, reason |-> PyNone]

JsonObject(fs, sc, r) ==
    [valid |-> TRUE, top |-> "dict", fields |-> fs,
     stat_changes |-> IF "stat_changes" \in fs THEN sc ELSE PyNone,
     reason |-> IF "reason" \in fs THEN r ELSE PyNone]

Responses ==
    {NotJson}
    \cup { JsonOther(t) : t \in {"list", "str", "int", "none"} }
    \cup { JsonObject(fs, sc, r) :
             fs \in SUBSET {"stat_changes", "reason"},
             sc \in StatChangesValues, r \in ReasonValues }

(* the responses used where several callers interleave *)
FewResponses ==
    { NotJson, JsonOther("list"),
      JsonObject({}, PyNone, PyNone),
      JsonObject({"stat_changes", "reason"},
                 PyDict([k \in {"intimacy", "stamina"} |->
                           IF k = "intimacy" THEN PyInt(MinorRange) ELSE PyInt(0)]),
                 PyStr("Positive encouragement")) }

NoResponse ==
    [valid |-> FALSE, top |-> "unset", fields |-> {},
     stat_changes |-> PyNone, reason |-> PyNone]

---------------------------------------------------------------------------
(* How a call ends *)

FailureReason == "stat analysis failed"             \* line 146
DefaultReason == "conversation analysis complete"   \* line 137

NoOutcome ==
    [op |-> "none", kind |-> "none", exc |-> "", delta |-> EmptyMap,
     reason |-> PyNone, level |-> "", label |-> "", intimacy |-> 0]

Return(d, r) ==
    [op |-> "analyze", kind |-> "return", exc |-> "", delta |-> d,
     reason |-> r, level |-> "", label |-> "", intimacy |-> 0]

Raise(e) ==
    [op |-> "analyze", kind |-> "raise", exc |-> e, delta |-> EmptyMap,
     reason |-> PyNone, level |-> "", label |-> "", intimacy |-> 0]

NoDict == [kind |-> "none", entries |-> EmptyMap]
Dict(m) == [kind |-> "dict", entries |-> m]

---------------------------------------------------------------------------
(* analyze_conversation, lines 31-146 *)

UserMessages == {"You did great today, keep it up!", "Run faster."}
BotReplies == {"Thanks, coach!"}
NoContext == "<None>"                 \* conversation_context = None (line 36)
Contexts == {NoContext, "", "They talked about stealing bases."}

(* line 124: an absent or empty context gives the empty string *)
context_info(conversation_context) ==
    IF conversation_context \in {NoContext, ""}
    THEN ""
    ELSE "[context]\n" \o conversation_context

(* lines 126-132: the values handed to chain.invoke *)
invoke_input(game_state, user_message, bot_reply, conversation_context) ==
    [current_month |-> game_state.current_month,
     current_stats |-> current_stats(game_state),
     user_message  |-> user_message,
     bot_reply     |-> bot_reply,
     context_info  |-> context_info(conversation_context)]

NoPrompt ==
    [current_month |-> 0,
     current_stats |-> [intimacy |-> 0, mental |-> 0, stamina |-> 0,
                        power |-> 0, speed |-> 0],
     user_message |-> "", bot_reply |-> "", context_info |-> ""]

(* dict.get(key) with the default left out *)
dict_get_nodefault(result, key, default) ==
    IF key \in result.fields THEN result[key] ELSE PyNone

(* dict.get(key, default), lines 136 and 137 *)
dict_get(result, key, default) ==
    IF key \in result.fields THEN result[key] ELSE default

(* the comprehension without its filter *)
nonzero_items_unfiltered(m) == m

(* the comprehension keeping the five stat names only *)
nonzero_items_canonical(m) ==
    [k \in {x \in DOMAIN m : PyNeZero(m[x]) /\ x \in StatNames} |-> m[k]]

(* line 140: {k: v for k, v in stat_changes.items() if v != 0} *)
nonzero_items(m) ==
    [k \in {x \in DOMAIN m : PyNeZero(m[x])} |-> m[k]]

(* lines 135-142, the part of the try block after the oracle has answered.
   json.loads raises JSONDecodeError on text that is no JSON; .get on a value
   that is no dict and .items() on a value that is no dict raise
   AttributeError. *)
try_body(text) ==
    IF ~text.valid THEN Raise("JSONDecodeError")
    ELSE IF text.top # "dict" THEN Raise("AttributeError")
    ELSE LET stat_changes == dict_get(text, "stat_changes", PyDict(EmptyMap))
             reason       == dict_get(text, "reason", PyStr(DefaultReason))
         IN  IF stat_changes.kind # "dict"
             THEN Raise("AttributeError")
             ELSE Return(nonzero_items(stat_changes.entries), reason)

(* failures chain.invoke may end with (line 126): the oracle unreachable, bad
   credentials, rate limiting, and a KeyError raised while the client library
   unpacks what the service sent *)
TransportFailures == {"APIConnectionError", "AuthenticationError", "RateLimitError"}
InvokeFailures == TransportFailures \cup {"KeyError"}

(* except Exception *)
CaughtKinds_all ==
    {"JSONDecodeError", "KeyError", "AttributeError"} \cup InvokeFailures

(* line 144: except (json.JSONDecodeError, KeyError) *)
CaughtKinds == {"JSONDecodeError", "KeyError"}

(* lines 144-146: what leaves the try statement, and what is printed *)
except_clause(out) ==
    IF out.kind = "raise" /\ out.exc \in CaughtKinds
    THEN Return(EmptyMap, PyStr(FailureReason))
    ELSE out

printed(out) ==
    IF out.kind = "raise" /\ out.exc \in CaughtKinds
    THEN << [level |-> "WARNING", kind |-> out.exc] >>
    ELSE << >>

(* lines 53-132: snapshot, prompt, context info, chain.invoke issued *)
AnalyzeBegin(c) ==
    /\ pc[c] = "ready"
    /\ \E user_message \in UserMessages, bot_reply \in BotReplies,
          conversation_context \in Contexts :
          prompt' = [prompt EXCEPT ![c] =
                        invoke_input(gameState, user_message, bot_reply,
                                     conversation_context)]
    /\ pc' = [pc EXCEPT ![c] = "invoke"]
    /\ invocations' = [invocations EXCEPT ![c] = 1]
    /\ response' = [response EXCEPT ![c] = NoResponse]
    /\ warnings' = [warnings EXCEPT ![c] = << >>]
    /\ invokeError' = [invokeError EXCEPT ![c] = ""]
    /\ outcome' = [outcome EXCEPT ![c] = NoOutcome]
    /\ held' = [held EXCEPT ![c] = NoDict]
    /\ UNCHANGED gameState

(* the call leaves the try statement with `out` *)
AnalyzeEnd(c, out) ==
    /\ pc' = [pc EXCEPT ![c] = "ready"]
    /\ prompt' = [prompt EXCEPT ![c] = NoPrompt]
    /\ warnings' = [warnings EXCEPT ![c] = printed(out)]
    /\ outcome' = [outcome EXCEPT ![c] = except_clause(out)]
    /\ held' = [held EXCEPT ![c] =
                  IF except_clause(out).kind = "return"
                  THEN Dict(except_clause(out).delta) ELSE NoDict]
    /\ UNCHANGED <<gameState, invocations>>

(* lines 126-146: chain.invoke returns a response, the rest of the call runs *)
OracleReplies(c, texts) ==
    /\ pc[c] = "invoke"
    /\ \E text \in texts :
          /\ response' = [response EXCEPT ![c] = text]
          /\ AnalyzeEnd(c, try_body(text))
    /\ UNCHANGED invokeError

(* lines 126, 144-146: chain.invoke raises *)
OracleFails(c) ==
    /\ pc[c] = "invoke"
    /\ \E e \in InvokeFailures :
          /\ invokeError' = [invokeError EXCEPT ![c] = e]
          /\ AnalyzeEnd(c, Raise(e))
    /\ UNCHANGED response

---------------------------------------------------------------------------
(* calculate_training_bonus, lines 148-172.  Labels of lines 165-169:
   stamina, strength, base running, batting, mental. *)

TrainingTypes ==
    {"stamina-training", "strength-training", "base-running", "batting",
     "mental-training"}
Labels == TrainingTypes \cup {"unknown-type"}

Pair(k1, v1, k2, v2) == [k \in {k1, k2} |-> IF k = k1 THEN PyInt(v1) ELSE PyInt(v2)]

(* lines 164-170: the dict literal *)
training_effects_table ==
    [t \in TrainingTypes |->
       CASE t = "stamina-training"  -> Pair("stamina", 5, "mental", 2)
         [] t = "strength-training" -> Pair("power", 5, "stamina", -2)
         [] t = "base-running"      -> Pair("speed", 5, "mental", 3)
         [] t = "batting"           -> Pair("power", 3, "mental", 2)
         [] t = "mental-training"   -> Pair("mental", 5, "intimacy", 2)]

(* one table kept across calls: a caller holding the dict of an earlier call
   for a label holds the table's own entry *)
training_effects_shared ==
    [t \in TrainingTypes |->
       IF \E c \in Callers : outcome[c].op = "bonus" /\ outcome[c].label = t
                              /\ held[c].kind = "dict"
       THEN held[CHOOSE c \in Callers : outcome[c].op = "bonus"
                        /\ outcome[c].label = t /\ held[c].kind = "dict"].entries
       ELSE training_effects_table[t]]

(* line 164: the local variable, bound to a fresh dict by every call *)
training_effects == training_effects_table

(* the bonus withheld from a player with no stamina left *)
calculate_training_bonus_by_state(training_type, game_state) ==
    IF training_type \in DOMAIN training_effects /\ game_state.stats.stamina > 0
    THEN training_effects[training_type]
    ELSE EmptyMap

(* line 172: training_effects.get(training_type, {}) *)
calculate_training_bonus(training_type, game_state) ==
    IF training_type \in DOMAIN training_effects
    THEN training_effects[training_type]
    ELSE EmptyMap

(* the ladder with <= in place of < *)
get_intimacy_level_inclusive(intimacy) ==
    IF intimacy <= 20 THEN "very low"
    ELSE IF intimacy <= 40 THEN "low"
    ELSE IF intimacy <= 60 THEN "moderate"
    ELSE IF intimacy <= 80 THEN "high"
    ELSE "very high"

(* get_intimacy_level, lines 174-193 *)
get_intimacy_level(intimacy) ==
    IF intimacy < 20 THEN "very low"
    ELSE IF intimacy < 40 THEN "low"
    ELSE IF intimacy < 60 THEN "moderate"
    ELSE IF intimacy < 80 THEN "high"
    ELSE "very high"

Intimacies == (-IntimacyBelow)..IntimacyAbove
FewIntimacies == {19, 20, 80}

TableEnd(c, out, d) ==
    /\ outcome' = [outcome EXCEPT ![c] = out]
    /\ held' = [held EXCEPT ![c] = d]
    /\ response' = [response EXCEPT ![c] = NoResponse]
    /\ warnings' = [warnings EXCEPT ![c] = << >>]
    /\ invocations' = [invocations EXCEPT ![c] = 0]
    /\ invokeError' = [invokeError EXCEPT ![c] = ""]
    /\ UNCHANGED <<gameState, pc, prompt>>

CallTrainingBonus(c) ==
    /\ pc[c] = "ready"
    /\ \E training_type \in Labels :
          LET d == calculate_training_bonus(training_type, gameState)
          IN  TableEnd(c, [NoOutcome EXCEPT !.op = "bonus", !.kind = "return",
                                            !.delta = d, !.label = training_type],
                       Dict(d))

CallIntimacyLevel(c, inputs) ==
    /\ pc[c] = "ready"
    /\ \E intimacy \in inputs :
          TableEnd(c, [NoOutcome EXCEPT !.op = "level", !.kind = "return",
                                        !.level = get_intimacy_level(intimacy),
                                        !.intimacy = intimacy],
                   NoDict)

(* the caller changes the dict a call handed to it: d["power"] = 0 *)
MutateHeld(c) ==
    /\ pc[c] = "ready"
    /\ held[c].kind = "dict"
    /\ held' = [held EXCEPT ![c] =
                  Dict([k \in DOMAIN held[c].entries \cup {"power"} |->
                          IF k = "power" THEN PyInt(0) ELSE held[c].entries[k]])]
    /\ UNCHANGED <<gameState, pc, prompt, response, invocations, warnings,
                   invokeError, outcome>>

---------------------------------------------------------------------------
(* Specifications *)

Init ==
    /\ gameState \in GameStates
    /\ pc = [c \in Callers |-> "ready"]
    /\ prompt = [c \in Callers |-> NoPrompt]
    /\ response = [c \in Callers |-> NoResponse]
    /\ invocations = [c \in Callers |-> 0]
    /\ warnings = [c \in Callers |-> << >>]
    /\ invokeError = [c \in Callers |-> ""]
    /\ outcome = [c \in Callers |-> NoOutcome]
    /\ held = [c \in Callers |-> NoDict]

(* one caller, every response *)
Next ==
    \/ AnalyzeBegin(1)
    \/ OracleReplies(1, Responses)
    \/ OracleFails(1)

Spec == Init /\ [][Next]_vars

(* one caller, the two rule tables *)
NextTables ==
    \/ CallTrainingBonus(1)
    \/ CallIntimacyLevel(1, Intimacies)

SpecTables == Init /\ [][NextTables]_vars

(* every caller, every operation, interleaved *)
NextCalls ==
    \E c \in Callers :
       \/ AnalyzeBegin(c)
       \/ OracleReplies(c, FewResponses)
       \/ OracleFails(c)
       \/ CallTrainingBonus(c)
       \/ CallIntimacyLevel(c, FewIntimacies)
       \/ MutateHeld(c)

SpecCalls == Init /\ [][NextCalls]_vars

---------------------------------------------------------------------------
(* Properties *)

(* caller c's analyze_conversation call has ended *)
Ended(c) == pc[c] = "ready" /\ outcome[c].op = "analyze"

(* ... after the oracle returned a response text *)
Answered(c) == Ended(c) /\ response[c] # NoResponse

(* the fallback pair of line 146 *)
IsFallback(out) ==
    /\ out.kind = "return"
    /\ out.delta = << >>
    /\ out.reason = PyStr("stat analysis failed")

(* the response does not decode as the schema of the prompt: no JSON, no
   object, or an object whose stat_changes is no mapping *)
FailsSchema(text) ==
    \/ ~text.valid
    \/ text.top # "dict"
    \/ "stat_changes" \in text.fields /\ text.stat_changes.kind # "dict"

(* the number zero *)
IsZero(v) == v.kind \in {"int", "float", "bool"} /\ v.n = 0

(* an object whose stat_changes, when present, maps keys to integers *)
WellFormed(text) ==
    /\ text.valid
    /\ text.top = "dict"
    /\ "stat_changes" \in text.fields =>
          /\ text.stat_changes.kind = "dict"
          /\ \A k \in DOMAIN text.stat_changes.entries :
                text.stat_changes.entries[k].kind = "int"

(* the entries of the response's stat_changes, none when the key is absent *)
Entries(text) ==
    IF "stat_changes" \in text.fields THEN text.stat_changes.entries ELSE << >>

(* C1: once the oracle has returned a response text, analyze_conversation
   ends by returning a pair, never by raising, and a response that does not
   decode as the schema gives the fallback pair. *)
C1_NeverRaises ==
    \A c \in Callers :
       Answered(c) =>
          /\ outcome[c].kind = "return"
          /\ FailsSchema(response[c]) => IsFallback(outcome[c])

(* C2: a response that fails to decode as the schema gives exactly one
   warning naming the failure kind and the fallback pair; the success path
   prints no warning. *)
C2_OneWarningThenFallback ==
    \A c \in Callers :
       Answered(c) =>
          IF FailsSchema(response[c])
          THEN /\ Len(warnings[c]) = 1
               /\ warnings[c][1].level = "WARNING"
               /\ warnings[c][1].kind # ""
               /\ IsFallback(outcome[c])
          ELSE warnings[c] = << >>

(* C3: no returned delta mapping, on the success path or the fallback path,
   has an entry whose value equals 0; a well-formed response whose stat
   changes are all zero returns the empty mapping. *)
C3_NoZeroEntries ==
    \A c \in Callers :
       (Ended(c) /\ outcome[c].kind = "return") =>
          /\ \A k \in DOMAIN outcome[c].delta : ~IsZero(outcome[c].delta[k])
          /\ ( /\ Answered(c)
               /\ WellFormed(response[c])
               /\ \A k \in DOMAIN Entries(response[c]) :
                     Entries(response[c])[k] = PyInt(0) )
             => outcome[c].delta = << >>

C3_Witness ==
    /\ Answered(1)
    /\ WellFormed(response[1])
    /\ DOMAIN Entries(response[1]) = {"intimacy", "speed"}
    /\ \A k \in DOMAIN Entries(response[1]) : Entries(response[1])[k] = PyInt(0)
    /\ outcome[1].kind = "return"
    /\ outcome[1].delta = << >>

(* C4: for a well-formed response the returned delta mapping is exactly
   the non-zero entries of the response's stat_changes, keys and values
   unchanged: keys outside the five stat names stay, values outside the
   documented ranges are not clamped. *)
C4_ExactlyNonZeroEntries ==
    \A c \in Callers :
       (Answered(c) /\ WellFormed(response[c])) =>
          /\ outcome[c].kind = "return"
          /\ DOMAIN outcome[c].delta =
                { k \in DOMAIN Entries(response[c]) : Entries(response[c])[k].n # 0 }
          /\ \A k \in DOMAIN outcome[c].delta :
                outcome[c].delta[k] = Entries(response[c])[k]

C4_Witness ==
    /\ Answered(1)
    /\ WellFormed(response[1])
    /\ DOMAIN Entries(response[1]) = {"luck", "stamina"}
    /\ Entries(response[1])["luck"] = PyInt(11)
    /\ Entries(response[1])["stamina"] = PyInt(0)
    /\ outcome[1].kind = "return"
    /\ DOMAIN outcome[1].delta = {"luck"}
    /\ outcome[1].delta["luck"] = PyInt(11)

(* the tier texts in ascending order *)
Tier(level) ==
    CASE level = "very low"  -> 1
      [] level = "low"       -> 2
      [] level = "moderate"  -> 3
      [] level = "high"      -> 4
      [] level = "very high" -> 5
      [] OTHER               -> 0

(* C5: get_intimacy_level answers for every integer: the lowest tier below
   20, the second for 20..39, the third for 40..59, the fourth for 60..79,
   the highest from 80 on, and a larger input never gets a lower tier. *)
C5_TierLadder ==
    \A c \in Callers :
       outcome[c].op = "level" =>
          LET i == outcome[c].intimacy
              t == Tier(outcome[c].level)
          IN  /\ outcome[c].kind = "return"
              /\ (i < 20) => t = 1
              /\ (20 <= i /\ i <= 39) => t = 2
              /\ (40 <= i /\ i <= 59) => t = 3
              /\ (60 <= i /\ i <= 79) => t = 4
              /\ (80 <= i) => t = 5
              /\ \A j \in Intimacies :
                    j <= i => Tier(get_intimacy_level(j)) <= t

C5_Witness ==
    /\ outcome[1].op = "level"
    /\ outcome[1].intimacy = 20
    /\ outcome[1].level = "low"

(* C6: calculate_training_bonus returns, whatever the game state, the
   fixed delta of a known training type (strength: power +5, stamina -2;
   stamina: stamina +5, mental +2; base running: speed +5, mental +3;
   batting: power +3, mental +2; mental: mental +5, intimacy +2) and the
   empty mapping for every other label. *)
C6_FixedBonus ==
    \A c \in Callers :
       outcome[c].op = "bonus" =>
          LET l == outcome[c].label
              d == outcome[c].delta
          IN  /\ outcome[c].kind = "return"
              /\ l = "strength-training" =>
                    d = ("power" :> PyInt(5) @@ "stamina" :> PyInt(-2))
              /\ l = "stamina-training" =>
                    d = ("stamina" :> PyInt(5) @@ "mental" :> PyInt(2))
              /\ l = "base-running" =>
                    d = ("speed" :> PyInt(5) @@ "mental" :> PyInt(3))
              /\ l = "batting" =>
                    d = ("power" :> PyInt(3) @@ "mental" :> PyInt(2))
              /\ l = "mental-training" =>
                    d = ("mental" :> PyInt(5) @@ "intimacy" :> PyInt(2))
              /\ l \notin {"strength-training", "stamina-training", "base-running",
                           "batting", "mental-training"} => d = << >>

C6_Witness ==
    /\ outcome[1].op = "bonus"
    /\ outcome[1].label = "strength-training"
    /\ gameState.stats.stamina = 0
    /\ outcome[1].delta = ("power" :> PyInt(5) @@ "stamina" :> PyInt(-2))

(* C7 as claimed: whenever the oracle invocation fails, the call has
   invoked the oracle once and ends by raising that failure, with no fallback
   result and no warning. *)
C7_EveryInvokeFailurePropagates ==
    \A c \in Callers :
       (Ended(c) /\ invokeError[c] # "") =>
          /\ invocations[c] = 1
          /\ outcome[c].kind = "raise"
          /\ outcome[c].exc = invokeError[c]
          /\ warnings[c] = << >>

(* C7 amended: a call invokes the oracle exactly once, before any response
   is parsed; an invocation failure that is neither a KeyError nor a
   JSONDecodeError ends the call by raising that failure, with no fallback
   result and no warning; a KeyError or JSONDecodeError raised by the
   invocation is absorbed into the fallback pair with one warning. *)
C7_TransportFailurePropagates ==
    \A c \in Callers :
       /\ pc[c] = "invoke" =>
             /\ invocations[c] = 1
             /\ response[c] = NoResponse
             /\ outcome[c].kind = "none"
       /\ Ended(c) => invocations[c] = 1
       /\ (Ended(c) /\ invokeError[c] # "") =>
             /\ response[c] = NoResponse
             /\ IF invokeError[c] \in {"KeyError", "JSONDecodeError"}
                THEN /\ IsFallback(outcome[c])
                     /\ Len(warnings[c]) = 1
                ELSE /\ outcome[c].kind = "raise"
                     /\ outcome[c].exc = invokeError[c]
                     /\ warnings[c] = << >>
                     /\ held[c].kind = "none"

C7_Witness ==
    /\ Ended(1)
    /\ invokeError[1] = "RateLimitError"
    /\ outcome[1].kind = "raise"
    /\ outcome[1].exc = "RateLimitError"
    /\ invocations[1] = 1

(* C8: the reason of every returned pair is a non-empty string. *)
C8_ReasonNonEmptyString ==
    \A c \in Callers :
       (Ended(c) /\ outcome[c].kind = "return") =>
          /\ outcome[c].reason.kind = "str"
          /\ outcome[c].reason.s # ""

(* C9: for a response that decodes to an object whose stat_changes, when
   present, is a mapping: a missing stat_changes gives the empty delta, a
   missing reason gives the generic analysis-complete string, and a field
   that is present is returned as given (the stat changes less their zero
   entries); the failure reason is not used. *)
C9_DefaultsForMissingFields ==
    \A c \in Callers :
       (Answered(c) /\ ~FailsSchema(response[c])) =>
          /\ outcome[c].kind = "return"
          /\ warnings[c] = << >>
          /\ IF "stat_changes" \in response[c].fields
             THEN /\ DOMAIN outcome[c].delta \subseteq
                        DOMAIN response[c].stat_changes.entries
                  /\ \A k \in DOMAIN response[c].stat_changes.entries :
                        IF IsZero(response[c].stat_changes.entries[k])
                        THEN k \notin DOMAIN outcome[c].delta
                        ELSE /\ k \in DOMAIN outcome[c].delta
                             /\ outcome[c].delta[k] =
                                   response[c].stat_changes.entries[k]
             ELSE outcome[c].delta = << >>
          /\ IF "reason" \in response[c].fields
             THEN outcome[c].reason = response[c].reason
             ELSE outcome[c].reason = PyStr("conversation analysis complete")

C9_Witness ==
    /\ Answered(1)
    /\ response[1].valid
    /\ response[1].top = "dict"
    /\ response[1].fields = {}
    /\ outcome[1].kind = "return"
    /\ outcome[1].delta = << >>
    /\ outcome[1].reason = PyStr("conversation analysis complete")

(* C10: no call leaves anything behind for another: any two calls with
   the same input, by whatever callers and whatever the callers did to the
   mappings handed to them, have the same result, and no step changes the
   game state. *)
C10_SameInputSameResult ==
    \A c1, c2 \in Callers :
       /\ (outcome[c1].op = "bonus" /\ outcome[c2].op = "bonus"
             /\ outcome[c1].label = outcome[c2].label)
          => outcome[c1].delta = outcome[c2].delta
       /\ (outcome[c1].op = "level" /\ outcome[c2].op = "level"
             /\ outcome[c1].intimacy = outcome[c2].intimacy)
          => outcome[c1].level = outcome[c2].level
       /\ (Ended(c1) /\ Ended(c2) /\ response[c1] = response[c2]
             /\ invokeError[c1] = invokeError[c2])
          => /\ outcome[c1] = outcome[c2]
             /\ warnings[c1] = warnings[c2]

(* C10: the core holds no state across calls: equal inputs give equal
   results in every reachable state, and the game state passed in is never
   changed. *)
C10_Stateless ==
    /\ []C10_SameInputSameResult
    /\ [][gameState' = gameState]_vars

C10_Witness ==
    /\ outcome[1].op = "bonus"
    /\ outcome[2].op = "bonus"
    /\ outcome[1].label = "strength-training"
    /\ outcome[2].label = "strength-training"
    /\ held[1].kind = "dict"
    /\ held[1].entries # outcome[1].delta
    /\ outcome[2].delta = outcome[1].delta

=============================================================================
